---------------------------- MODULE Spec2Model ----------------------------
(***************************************************************************)
(* Model of scripts/numbers_analysis.py: the tokenizer that extracts the   *)
(* digit runs of a text, the four analyzers (count, sum, max, longest) and *)
(* the command line entry point main, which reads the input file, creates  *)
(* the output directory and writes one <task>.txt file per selected task.  *)
(*                                                                         *)
(* A Python str is modelled as a sequence of characters, each character a  *)
(* one-element TLA+ string; the character U+0663 (ARABIC-INDIC DIGIT       *)
(* THREE) is written "U+0663".  Positions are 1-based and spans inclusive, *)
(* where Python's are 0-based and half-open.                               *)
(***************************************************************************)
EXTENDS Integers, Sequences, FiniteSets, TLC

VARIABLES pc, input, text, tasks, idx, tokens, result, outdir, files,
          written, err, outdir0, files0

vars == <<pc, input, text, tasks, idx, tokens, result, outdir, files,
          written, err, outdir0, files0>>

(***************************************************************************)
(* Bounds of the model.                                                    *)
(***************************************************************************)
\* longest text given to the tokenizer and the analyzers (SpecAnalysis)
MaxLen == 5
\* longest content of the input file of a run of main (Spec)
MaxInput == 3
\* longest --tasks list of a run of main (Spec)
MaxTasks == 3

(***************************************************************************)
(* Characters.                                                             *)
(***************************************************************************)
\* str(int) writes a non-negative integer with these digits
AsciiDigits == <<"0", "1", "2", "3", "4", "5", "6", "7", "8", "9">>

\* a decimal digit outside ASCII (Unicode category Nd)
ArabicIndicThree == "U+0663"

\* \d of a str pattern: any Unicode decimal digit, not only '0'..'9'
IsDigit(c) == c \in {AsciiDigits[k] : k \in 1..10} \cup {ArabicIndicThree}

\* the characters the texts of SpecAnalysis are made of
Alphabet == {"0", "1", "9", "a", "@", ArabicIndicThree}

\* the characters the input file of a run of main is made of
InputAlphabet == {"1", "a"}

Texts(alphabet, n) == UNION {[1..k -> alphabet] : k \in 0..n}

(***************************************************************************)
(* _NUMBER_PATTERN = (?<!\d)(\d+)(?!\d) and its finditer.                  *)
(***************************************************************************)
\* (?<!\d) at position pos
LookBehind(s, pos) == pos = 1 \/ ~IsDigit(s[pos - 1])

\* (?!\d) after a match ending at position e
LookAhead(s, e) == e = Len(s) \/ ~IsDigit(s[e + 1])

\* \d in place of \d+: the run is never extended past its first digit
GreedyEndOne(s, pos) ==
    IF pos > Len(s) \/ ~IsDigit(s[pos]) THEN pos - 1 ELSE pos

\* \d+ is greedy: the end of the longest run of \d characters from pos
\* (pos - 1 when s[pos] is no digit)
RECURSIVE GreedyEnd(_, _)
GreedyEnd(s, pos) ==
    IF pos > Len(s) \/ ~IsDigit(s[pos]) THEN pos - 1 ELSE GreedyEnd(s, pos + 1)

\* backtracking of \d+ from its greedy end e down to one character, until
\* the lookahead succeeds; 0 when no length does
RECURSIVE Backtrack(_, _, _)
Backtrack(s, pos, e) ==
    IF e < pos THEN 0
    ELSE IF LookAhead(s, e) THEN e
    ELSE Backtrack(s, pos, e - 1)

\* the end of the match of the pattern starting at pos, 0 when there is none
MatchAt(s, pos) ==
    IF LookBehind(s, pos) THEN Backtrack(s, pos, GreedyEnd(s, pos)) ELSE 0

\* finditer: the non-overlapping matches from left to right; the scan
\* resumes after the end of a match, and one character on without a match
RECURSIVE Scan(_, _)
Scan(s, pos) ==
    IF pos > Len(s) THEN <<>>
    ELSE LET e == MatchAt(s, pos)
         IN  IF e = 0 THEN Scan(s, pos + 1)
             ELSE <<[start |-> pos, end |-> e]>> \o Scan(s, e + 1)

finditer(s) == Scan(s, 1)

\* match.group(0)
group0(s, m) == SubSeq(s, m.start, m.end)

NumberToken(t) == [text |-> t]

extract_number_tokens(s) ==
    LET ms == finditer(s)
    IN  [k \in 1..Len(ms) |-> NumberToken(group0(s, ms[k]))]

(***************************************************************************)
(* int() and str().                                                        *)
(***************************************************************************)
\* the value int() gives a decimal digit character
DigitValue(c) ==
    IF c = ArabicIndicThree THEN 3 ELSE CHOOSE v \in 0..9 : AsciiDigits[v + 1] = c

\* int(text) of a digit string, base 10
RECURSIVE int(_)
int(t) ==
    IF t = <<>> THEN 0
    ELSE 10 * int(SubSeq(t, 1, Len(t) - 1)) + DigitValue(t[Len(t)])

\* str(n) of a non-negative integer: no sign, no leading zeros
RECURSIVE str(_)
str(n) ==
    IF n < 10 THEN <<AsciiDigits[n + 1]>>
    ELSE str(n \div 10) \o <<AsciiDigits[(n % 10) + 1]>>

\* NumberToken.value and NumberToken.length
value(token) == int(token.text)

length(token) == Len(token.text)

(***************************************************************************)
(* The analyzers.                                                          *)
(***************************************************************************)
BRAK == <<"B", "R", "A", "K">>

\* len(set(tokens)) in place of len(token_list): equal tokens counted once
count_distinct(toks) == str(Cardinality({toks[k] : k \in 1..Len(toks)}))

count_tokens(toks) == str(Len(toks))

\* the sum kept in a 16-bit unsigned integer
RECURSIVE SumValuesWrapped(_)
SumValuesWrapped(toks) ==
    IF toks = <<>> THEN 0
    ELSE (SumValuesWrapped(SubSeq(toks, 1, Len(toks) - 1))
            + value(toks[Len(toks)])) % 65536

\* sum(token.value for token in tokens): a left fold from 0
RECURSIVE SumValues(_)
SumValues(toks) ==
    IF toks = <<>> THEN 0
    ELSE SumValues(SubSeq(toks, 1, Len(toks) - 1)) + value(toks[Len(toks)])

sum_tokens(toks) == str(SumValues(toks))

\* max(token_list, key=length).value: the tokens compared by length
MaxValueByLength(toks) ==
    LET k == CHOOSE k \in 1..Len(toks) :
                 \A j \in 1..Len(toks) : length(toks[j]) <= length(toks[k])
    IN  value(toks[k])

\* max(token.value for token in token_list) of a non-empty list
RECURSIVE MaxValue(_)
MaxValue(toks) ==
    IF Len(toks) = 1 THEN value(toks[1])
    ELSE LET m == MaxValue(SubSeq(toks, 1, Len(toks) - 1))
             v == value(toks[Len(toks)])
         IN  IF v > m THEN v ELSE m

max_token(toks) == IF toks = <<>> THEN BRAK ELSE str(MaxValue(toks))

\* >= in place of >: the last token of the greatest length wins
LongerOrEqual(candidate, longest) == length(candidate) >= length(longest)

\* the candidate replaces the longest so far when strictly longer
Longer(candidate, longest) == length(candidate) > length(longest)

\* the loop of longest_token over token_list[1:], longest = token_list[0]
RECURSIVE Longest(_)
Longest(toks) ==
    IF Len(toks) = 1 THEN toks[1]
    ELSE LET longest == Longest(SubSeq(toks, 1, Len(toks) - 1))
             candidate == toks[Len(toks)]
         IN  IF Longer(candidate, longest) THEN candidate ELSE longest

longest_token(toks) ==
    IF toks = <<>> THEN BRAK
    ELSE LET longest == Longest(toks)
         IN  longest.text \o <<" ">> \o str(length(longest))

TaskNames == {"count", "sum", "max", "longest"}

TASKS(name, toks) ==
    CASE name = "count" -> count_tokens(toks)
      [] name = "sum" -> sum_tokens(toks)
      [] name = "max" -> max_token(toks)
      [] name = "longest" -> longest_token(toks)

\* longest_token taking its first candidate with tokens.pop(0)
TokensAfterPop(name, toks) ==
    IF name = "longest" /\ toks # <<>> THEN Tail(toks) ELSE toks

\* the list an analyzer was given, after the call: every analyzer works on
\* a copy (list(tokens), token_list[1:]) or only iterates
TokensAfter(name, toks) == toks


(***************************************************************************)
(* The file system a run of main sees.                                     *)
(***************************************************************************)
NoFile == [exists |-> FALSE, data |-> <<>>]

File(data) == [exists |-> TRUE, data |-> data]

\* a <task>.txt left in the output directory by an earlier run
Stale == File(<<"o", "l", "d">>)

NoFiles == [n \in TaskNames |-> NoFile]

\* write_text(result), the newline forgotten
ContentNoNewline(res) == res

\* write_text(result + "\n")
Content(res) == res \o <<"\n">>

\* what a failed write_text leaves of the file: open() failed and the file
\* is as it was, or open(mode "w") truncated it and the write failed
FailedWrite(old) == {old, File(<<>>)}

(***************************************************************************)
(* The tokenizer and the analyzers applied to a text (SpecAnalysis).       *)
(***************************************************************************)
Idle ==
    /\ input = <<"text", <<>>>>
    /\ tasks = <<>>
    /\ idx = 1
    /\ outdir = "absent"
    /\ files = NoFiles
    /\ written = <<>>
    /\ err = ""
    /\ outdir0 = "absent"
    /\ files0 = NoFiles

AnalysisInit ==
    /\ pc = "start"
    /\ text \in Texts(Alphabet, MaxLen)
    /\ tokens = <<>>
    /\ result = [task |-> "", value |-> <<>>]
    /\ Idle

Extract ==
    /\ pc = "start"
    /\ tokens' = extract_number_tokens(text)
    /\ pc' = "extracted"
    /\ UNCHANGED <<input, text, tasks, idx, result, outdir, files, written,
                   err, outdir0, files0>>

Analyze(name) ==
    /\ pc = "extracted"
    /\ result' = [task |-> name, value |-> TASKS(name, tokens)]
    /\ tokens' = TokensAfter(name, tokens)
    /\ pc' = "analyzed"
    /\ UNCHANGED <<input, text, tasks, idx, outdir, files, written, err,
                   outdir0, files0>>

Count == Analyze("count")

Sum == Analyze("sum")

Max == Analyze("max")

LongestTask == Analyze("longest")

AnalysisNext == Extract \/ Count \/ Sum \/ Max \/ LongestTask

SpecAnalysis == AnalysisInit /\ [][AnalysisNext]_vars

(***************************************************************************)
(* main.                                                                   *)
(***************************************************************************)
\* --input: no such path, a directory, a file whose bytes do not decode
\* under --encoding, or a file holding a text
Inputs ==
    {<<"missing", <<>>>>, <<"directory", <<>>>>, <<"undecodable", <<>>>>}
        \cup {<<"text", t>> : t \in Texts(InputAlphabet, MaxInput)}

\* --tasks: nargs="+" with choices, one name or more, repeats allowed
TaskLists == UNION {[1..k -> TaskNames] : k \in 1..MaxTasks}

Init ==
    /\ pc = "start"
    /\ input \in Inputs
    /\ tasks \in TaskLists
    /\ text = <<>>
    /\ tokens = <<>>
    /\ idx = 1
    /\ result = [task |-> "", value |-> <<>>]
    /\ \/ outdir \in {"absent", "file"} /\ files = NoFiles
       \/ outdir = "dir" /\ files \in {NoFiles, [n \in TaskNames |-> Stale]}
    /\ written = <<>>
    /\ err = ""
    /\ outdir0 = outdir
    /\ files0 = files

Fail(e) ==
    /\ pc' = "failed"
    /\ err' = e

\* the output directory created before the input is looked at
CheckInputAfterMkdir ==
    /\ pc = "start"
    /\ outdir' = IF outdir = "absent" THEN "dir" ELSE outdir
    /\ IF input[1] \in {"missing", "directory"}
       THEN Fail("FileNotFoundError")
       ELSE pc' = "read" /\ err' = err
    /\ UNCHANGED <<input, text, tasks, idx, tokens, result, files, written,
                   outdir0, files0>>

\* if not args.input.is_file(): raise FileNotFoundError
CheckInput ==
    /\ pc = "start"
    /\ IF input[1] \in {"missing", "directory"}
       THEN Fail("FileNotFoundError")
       ELSE pc' = "read" /\ err' = err
    /\ UNCHANGED <<input, text, tasks, idx, tokens, result, outdir, files,
                   written, outdir0, files0>>

\* text = args.input.read_text(...); tokens = extract_number_tokens(text)
ReadInput ==
    /\ pc = "read"
    /\ IF input[1] = "undecodable"
       THEN Fail("UnicodeDecodeError") /\ UNCHANGED <<text, tokens>>
       ELSE /\ text' = input[2]
            /\ tokens' = extract_number_tokens(input[2])
            /\ pc' = "mkdir"
            /\ err' = err
    /\ UNCHANGED <<input, tasks, idx, result, outdir, files, written,
                   outdir0, files0>>

\* output_dir.mkdir(parents=True, exist_ok=True)
MkDir ==
    /\ pc = "mkdir"
    /\ \/ outdir \in {"absent", "dir"} /\ outdir' = "dir"
          /\ pc' = "loop" /\ err' = err
       \/ outdir = "file" /\ Fail("FileExistsError") /\ outdir' = outdir
       \/ outdir = "absent" /\ Fail("PermissionError") /\ outdir' = outdir
    /\ UNCHANGED <<input, text, tasks, idx, tokens, result, files, written,
                   outdir0, files0>>

\* the loop body with the error of write_text caught and the loop going on
WriteTaskContinue ==
    /\ pc = "loop"
    /\ idx <= Len(tasks)
    /\ LET task_name == tasks[idx]
           res == TASKS(task_name, tokens)
       IN  /\ result' = [task |-> task_name, value |-> res]
           /\ tokens' = TokensAfter(task_name, tokens)
           /\ \/ /\ files' = [files EXCEPT ![task_name] = File(Content(res))]
                 /\ written' = Append(written,
                        [pos |-> idx, name |-> task_name, data |-> Content(res)])
                 /\ err' = err
              \/ /\ \E left \in FailedWrite(files[task_name]) :
                        files' = [files EXCEPT ![task_name] = left]
                 /\ err' = "OSError"
                 /\ UNCHANGED written
           /\ idx' = idx + 1
           /\ pc' = pc
    /\ UNCHANGED <<input, text, tasks, outdir, outdir0, files0>>

\* one pass of the loop body: the analyzer, then write_text, which
\* succeeds or raises
WriteTask ==
    /\ pc = "loop"
    /\ idx <= Len(tasks)
    /\ LET task_name == tasks[idx]
           res == TASKS(task_name, tokens)
       IN  /\ result' = [task |-> task_name, value |-> res]
           /\ tokens' = TokensAfter(task_name, tokens)
           /\ \/ /\ files' = [files EXCEPT ![task_name] = File(Content(res))]
                 /\ written' = Append(written,
                        [pos |-> idx, name |-> task_name, data |-> Content(res)])
                 /\ idx' = idx + 1
                 /\ pc' = pc
                 /\ err' = err
              \/ /\ \E left \in FailedWrite(files[task_name]) :
                        files' = [files EXCEPT ![task_name] = left]
                 /\ Fail("OSError")
                 /\ UNCHANGED <<written, idx>>
    /\ UNCHANGED <<input, text, tasks, outdir, outdir0, files0>>

\* the loop is exhausted and main returns
Return ==
    /\ pc = "loop"
    /\ idx > Len(tasks)
    /\ pc' = "done"
    /\ UNCHANGED <<input, text, tasks, idx, tokens, result, outdir, files,
                   written, err, outdir0, files0>>

Next == CheckInput \/ ReadInput \/ MkDir \/ WriteTask \/ Return

Spec == Init /\ [][Next]_vars


(***************************************************************************)
(* Notions the properties are stated in, defined apart from the code.      *)
(***************************************************************************)
\* the maximal digit runs of s, as <<first, last>> positions
Runs(s) ==
    {r \in (1..Len(s)) \X (1..Len(s)) :
        /\ r[1] <= r[2]
        /\ \A i \in r[1]..r[2] : IsDigit(s[i])
        /\ r[1] = 1 \/ ~IsDigit(s[r[1] - 1])
        /\ r[2] = Len(s) \/ ~IsDigit(s[r[2] + 1])}

RECURSIVE Pow10(_)
Pow10(k) == IF k = 0 THEN 1 ELSE 10 * Pow10(k - 1)

\* the sum of digit times place value, over the positions i..Len(t)
RECURSIVE PlaceSum(_, _)
PlaceSum(t, i) ==
    IF i > Len(t) THEN 0
    ELSE DigitValue(t[i]) * Pow10(Len(t) - i) + PlaceSum(t, i + 1)

\* the integer a digit string denotes
PlaceValue(t) == PlaceSum(t, 1)

\* r is the decimal string of n: ASCII digits, no leading zero, value n
IsDecimalOf(r, n) ==
    /\ Len(r) >= 1
    /\ \A i \in 1..Len(r) : r[i] \in {AsciiDigits[k] : k \in 1..10}
    /\ Len(r) = 1 \/ r[1] # "0"
    /\ PlaceValue(r) = n

\* the sum of the values of the tokens at positions i..Len(toks)
RECURSIVE TotalFrom(_, _)
TotalFrom(toks, i) ==
    IF i > Len(toks) THEN 0
    ELSE PlaceValue(toks[i].text) + TotalFrom(toks, i + 1)

Analyzed(name) == pc = "analyzed" /\ result.task = name

(***************************************************************************)
(* C1: extract_number_tokens returns exactly one token per maximal digit   *)
(* run of the text, in left-to-right order of the runs: the k-th token is  *)
(* the text of the run with k-1 runs before it, and there are as many      *)
(* tokens as runs (so no run is split, merged or left out), whatever the   *)
(* non-digit characters between the runs are.                              *)
(***************************************************************************)
C1_OneTokenPerMaximalRun ==
    pc = "extracted" =>
        /\ Len(tokens) = Cardinality(Runs(text))
        /\ \A k \in 1..Len(tokens) :
              \E r \in Runs(text) :
                 /\ tokens[k] = NumberToken(SubSeq(text, r[1], r[2]))
                 /\ Cardinality({q \in Runs(text) : q[1] < r[1]}) = k - 1

\* two runs of two digits, once with "a" and once with "@" between them
C1_Witness ==
    /\ pc = "extracted"
    /\ text \in {<<"1", "9", "a", "0", "1">>, <<"1", "9", "@", "0", "1">>}
    /\ tokens = <<NumberToken(<<"1", "9">>), NumberToken(<<"0", "1">>)>>

(***************************************************************************)
(* C2: every token of extract_number_tokens has a non-empty text made only *)
(* of the ASCII digits '0'..'9', and the characters right before and right *)
(* after it in the text are no decimal digits.                             *)
(***************************************************************************)
C2_TokensAreAsciiDigitRuns ==
    pc = "extracted" =>
        LET ms == finditer(text)
        IN  /\ Len(tokens) = Len(ms)
            /\ \A k \in 1..Len(ms) :
                  /\ tokens[k].text = SubSeq(text, ms[k].start, ms[k].end)
                  /\ Len(tokens[k].text) >= 1
                  /\ \A i \in 1..Len(tokens[k].text) :
                        tokens[k].text[i] \in {AsciiDigits[d] : d \in 1..10}
                  /\ ms[k].start = 1 \/ ~IsDigit(text[ms[k].start - 1])
                  /\ ms[k].end = Len(text) \/ ~IsDigit(text[ms[k].end + 1])

(***************************************************************************)
(* C3: max_token returns "BRAK" for the empty sequence and otherwise the   *)
(* decimal string, without leading zeros, of the greatest integer value    *)
(* among the tokens: the tokens are compared by value, not by text or      *)
(* length.                                                                 *)
(***************************************************************************)
C3_MaxIsGreatestValue ==
    Analyzed("max") =>
        IF tokens = <<>> THEN result.value = BRAK
        ELSE \E k \in 1..Len(tokens) :
                /\ \A j \in 1..Len(tokens) :
                      PlaceValue(tokens[j].text) <= PlaceValue(tokens[k].text)
                /\ IsDecimalOf(result.value, PlaceValue(tokens[k].text))

\* the greatest value is written with a leading zero and is not the first
\* of the longest tokens
C3_Witness ==
    /\ Analyzed("max")
    /\ tokens = <<NumberToken(<<"0", "0">>), NumberToken(<<"0", "9">>)>>
    /\ result.value = <<"9">>

(***************************************************************************)
(* C4: longest_token returns "BRAK" for the empty sequence and otherwise   *)
(* "<text> <length>" of the first token, in sequence order, whose digit    *)
(* count is the greatest of the sequence; the text is unchanged (leading   *)
(* zeros kept) and the length is the number of its characters.             *)
(***************************************************************************)
C4_LongestIsFirstOfMaximalLength ==
    Analyzed("longest") =>
        IF tokens = <<>> THEN result.value = BRAK
        ELSE \E k \in 1..Len(tokens) :
                LET t == tokens[k].text
                    r == result.value
                IN  /\ \A j \in 1..Len(tokens) : Len(tokens[j].text) <= Len(t)
                    /\ \A j \in 1..(k - 1) : Len(tokens[j].text) < Len(t)
                    /\ Len(r) >= Len(t) + 2
                    /\ SubSeq(r, 1, Len(t)) = t
                    /\ r[Len(t) + 1] = " "
                    /\ IsDecimalOf(SubSeq(r, Len(t) + 2, Len(r)), Len(t))

\* two tokens of the greatest length, the first with a leading zero
C4_Witness ==
    /\ Analyzed("longest")
    /\ tokens = <<NumberToken(<<"0", "1">>), NumberToken(<<"1", "9">>)>>
    /\ result.value = <<"0", "1", " ", "2">>

C6_CountIsNumberOfTokens ==
    Analyzed("count") =>
        /\ IsDecimalOf(result.value, Len(tokens))
        /\ IsDecimalOf(result.value, Cardinality(Runs(text)))
        /\ tokens = <<>> => result.value = <<"0">>

\* three tokens equal in text and in value
C6_Witness ==
    /\ Analyzed("count")
    /\ text = <<"1", "a", "1", "@", "1">>
    /\ result.value = <<"3">>


\* the tokens of the text of the input file, extracted afresh
FreshTokens == extract_number_tokens(input[2])

\* what the file of task name is to hold, fresh being the fresh tokens
Expected(name, fresh) == TASKS(name, fresh) \o <<"\n">>

(***************************************************************************)
(* C7: when main returns, for every selected task name t the file          *)
(* <output-dir>/<t>.txt exists and holds exactly the result of TASKS[t] on *)
(* the tokens of the input text followed by one newline, also when the     *)
(* output directory did not exist before and when a name is listed twice.  *)
(***************************************************************************)
C7_EveryTaskFileWritten ==
    pc = "done" =>
        LET fresh == FreshTokens
        IN  /\ outdir = "dir"
            /\ \A k \in 1..Len(tasks) :
                  /\ files[tasks[k]].exists
                  /\ files[tasks[k]].data = Expected(tasks[k], fresh)

\* a completed run into a directory that did not exist, a name listed
\* twice, the input holding two numbers
C7_Witness ==
    /\ pc = "done"
    /\ outdir0 = "absent"
    /\ tasks = <<"longest", "sum", "longest">>
    /\ input[2] = <<"1", "a", "1">>
    /\ files["longest"].data = <<"1", " ", "1", "\n">>
    /\ files["sum"].data = <<"2", "\n">>

(***************************************************************************)
(* C8: the output directory is created and files are written only after    *)
(* the input was found to be a regular file and was read and decoded: a    *)
(* run whose input is missing, no regular file or undecodable ends with a  *)
(* fatal error, having created no directory and written no file.           *)
(***************************************************************************)
C8_NoOutputBeforeInputRead ==
    /\ (outdir # outdir0 \/ files # files0 \/ written # <<>>) =>
          /\ input[1] = "text"
          /\ text = input[2]
          /\ pc \in {"loop", "done", "failed"}
    /\ input[1] \in {"missing", "directory", "undecodable"} =>
          /\ pc \in {"start", "read", "failed"}
          /\ pc = "failed" =>
                err = IF input[1] = "undecodable" THEN "UnicodeDecodeError"
                      ELSE "FileNotFoundError"

\* a failed run on an undecodable input, the output directory still absent
C8_Witness ==
    /\ pc = "failed"
    /\ input[1] = "undecodable"
    /\ err = "UnicodeDecodeError"
    /\ outdir0 = "absent"
    /\ outdir = "absent"
    /\ files = NoFiles

C10_WritesInOrderNoRollback ==
    LET fresh == FreshTokens
        done(j) == File(Expected(tasks[j], fresh))
    IN  /\ \A j \in 1..Len(written) :
              written[j] = [pos |-> j, name |-> tasks[j], data |-> done(j).data]
        /\ pc = "loop" => Len(written) = idx - 1
        /\ err = "OSError" =>
              /\ pc = "failed"
              /\ Len(written) = idx - 1
              /\ \A j \in 1..(idx - 1) :
                    tasks[j] # tasks[idx] => files[tasks[j]] = done(j)
              /\ \A n \in TaskNames \ {tasks[j] : j \in 1..idx} :
                    files[n] = files0[n]

\* the write of the second of three tasks failed: the first file is
\* complete, the third was left as the earlier run had written it
C10_Witness ==
    /\ pc = "failed"
    /\ err = "OSError"
    /\ idx = 2
    /\ tasks = <<"count", "sum", "max">>
    /\ files["count"] = File(<<"1", "\n">>)
    /\ files["sum"] = File(<<>>)
    /\ files["max"] = Stale

=============================================================================
